---- MODULE Spec2Model ----
(***************************************************************************)
(* Nebula location finder (script.py): one interactive session per call of *)
(* main(), nested sessions through the recursive "check another nebula"    *)
(* call.  Text read from the console is a sequence of one-character        *)
(* strings.  Angles of the horizontal position (alt, az) are integers in   *)
(* units of 1/(2*Resolution) degree, observer coordinates are integers in  *)
(* units of 1/CoordUnit degree, and times of day are integers in ticks of  *)
(* 1/Resolution second.                                                    *)
(***************************************************************************)
EXTENDS Integers, Sequences, FiniteSets, TLC

VARIABLES pc, depth, pending_lat, lat, lon, loc_src, location, geo_result,
          clock, date_str, time_src, obs_time, choice, selected, alt, az,
          compass_dir, visibility, hours_till_rise, rise_time, transforms,
          report_file, out, interrupted, exit_code

vars == <<pc, depth, pending_lat, lat, lon, loc_src, location, geo_result,
          clock, date_str, time_src, obs_time, choice, selected, alt, az,
          compass_dir, visibility, hours_till_rise, rise_time, transforms,
          report_file, out, interrupted, exit_code>>

\* ------------------------------------------------------------------ bounds
\* angle units per half degree, ticks per second
Resolution == 10
\* deepest nesting of main() the model follows
MaxDepth == 2

\* --------------------------------------------------------------- constants
\* observer coordinates are kept to four decimals
CoordUnit == 10000
DEFAULT_LAT == 407128
DEFAULT_LON == -740060

None == "None"

Deg(d) == d * 2 * Resolution
Hour == 3600 * Resolution
Minute == 60 * Resolution
TicksPerDay == 24 * Hour

\* ------------------------------------------------------- text of the input
Digits == <<"0", "1", "2", "3", "4", "5", "6", "7", "8", "9">>

IsDigit(c) == \E i \in 1..10 : Digits[i] = c

DigitVal(c) == (CHOOSE i \in 1..10 : Digits[i] = c) - 1

IsSpace(c) == c = " "

RECURSIVE LStrip(_)
LStrip(s) == IF s # <<>> /\ IsSpace(Head(s)) THEN LStrip(Tail(s)) ELSE s

RECURSIVE RStrip(_)
RStrip(s) ==
    IF s # <<>> /\ IsSpace(s[Len(s)]) THEN RStrip(SubSeq(s, 1, Len(s) - 1)) ELSE s

\* str.strip()
Strip(s) == RStrip(LStrip(s))

LowerChar(c) == IF c = "Y" THEN "y" ELSE IF c = "N" THEN "n" ELSE c

\* str.lower()
Lower(s) == [i \in 1..Len(s) |-> LowerChar(s[i])]

\* number of consecutive digits of s from position i on
RECURSIVE DigitsFrom(_, _)
DigitsFrom(s, i) ==
    IF i <= Len(s) /\ IsDigit(s[i]) THEN 1 + DigitsFrom(s, i + 1) ELSE 0

\* number of consecutive spaces of s from position i on
RECURSIVE SpacesFrom(_, _)
SpacesFrom(s, i) ==
    IF i <= Len(s) /\ IsSpace(s[i]) THEN 1 + SpacesFrom(s, i + 1) ELSE 0

\* value of the n digits of s that start at position i
RECURSIVE NumAt(_, _, _)
NumAt(s, i, n) ==
    IF n = 0 THEN 0 ELSE NumAt(s, i, n - 1) * 10 + DigitVal(s[i + n - 1])

RECURSIVE Pow10(_)
Pow10(n) == IF n = 0 THEN 1 ELSE 10 * Pow10(n - 1)

HasSign(t) == t # <<>> /\ t[1] \in {"+", "-"}

Unsigned(t) == IF HasSign(t) THEN Tail(t) ELSE t

SignOf(t) == IF t # <<>> /\ t[1] = "-" THEN -1 ELSE 1

\* int(text): optional blanks, optional sign, one or more digits; anything
\* else raises ValueError (ok = FALSE)
ParseInt(s) ==
    LET t == Strip(s)
        b == Unsigned(t)
        n == DigitsFrom(b, 1)
    IN  IF b # <<>> /\ n = Len(b)
        THEN [ok |-> TRUE, val |-> SignOf(t) * NumAt(b, 1, n)]
        ELSE [ok |-> FALSE, val |-> 0]

\* float(text) for decimal literals of up to four decimals, in units of
\* 1/CoordUnit: optional blanks, optional sign, digits with an optional
\* fraction; anything else raises ValueError (ok = FALSE)
ParseFloat(s) ==
    LET t == Strip(s)
        b == Unsigned(t)
        ni == DigitsFrom(b, 1)
        dot == ni < Len(b) /\ b[ni + 1] = "."
        nf == IF dot THEN DigitsFrom(b, ni + 2) ELSE 0
        used == ni + (IF dot THEN 1 + nf ELSE 0)
    IN  IF b # <<>> /\ used = Len(b) /\ ni + nf >= 1 /\ nf <= 4
        THEN [ok |-> TRUE,
              val |-> SignOf(t) * (NumAt(b, 1, ni) * CoordUnit
                                   + NumAt(b, ni + 2, nf) * Pow10(4 - nf))]
        ELSE [ok |-> FALSE, val |-> 0]

\* ---------------------------------------------------------------- calendar
IsLeap(y) == y % 4 = 0 /\ (y % 100 # 0 \/ y % 400 = 0)

DaysInMonth(y, m) ==
    IF m = 2 THEN (IF IsLeap(y) THEN 29 ELSE 28)
    ELSE IF m \in {4, 6, 9, 11} THEN 30 ELSE 31

\* an instant: calendar date and ticks since midnight, UTC
Instant(y, m, d, t) == [Y |-> y, M |-> m, D |-> d, t |-> t]

NextDay(i) ==
    IF i.D < DaysInMonth(i.Y, i.M) THEN [i EXCEPT !.D = i.D + 1]
    ELSE IF i.M < 12 THEN [i EXCEPT !.M = i.M + 1, !.D = 1]
    ELSE [i EXCEPT !.Y = i.Y + 1, !.M = 1, !.D = 1]

\* Time + n ticks (n >= 0)
RECURSIVE AddTicks(_, _)
AddTicks(i, n) ==
    IF i.t + n < TicksPerDay THEN [i EXCEPT !.t = i.t + n]
    ELSE AddTicks(NextDay([i EXCEPT !.t = 0]), i.t + n - TicksPerDay)

\* the width (1 or 2) and value of the number field of s at position i, as
\* the directive's pattern matches it: lo..hi is the range the pattern admits
Field(s, i, lo, hi) ==
    LET n == DigitsFrom(s, i)
    IN  IF n \in 1..2 /\ NumAt(s, i, n) \in lo..hi
        THEN [ok |-> TRUE, n |-> n, val |-> NumAt(s, i, n)]
        ELSE [ok |-> FALSE, n |-> 0, val |-> 0]

IsChar(s, i, c) == i <= Len(s) /\ s[i] = c

\* the fields checked against their widest ranges only
DatetimeValid_anyday(y, m, d, H, M, S) ==
    /\ y >= 1
    /\ m \in 1..12
    /\ d \in 1..31
    /\ H \in 0..23 /\ M \in 0..59 /\ S \in 0..59

\* datetime(y, m, d, H, M, S): ValueError unless the fields name a real
\* calendar instant
DatetimeValid(y, m, d, H, M, S) ==
    /\ y >= 1
    /\ m \in 1..12
    /\ d \in 1..DaysInMonth(y, m)
    /\ H \in 0..23 /\ M \in 0..59 /\ S \in 0..59

\* datetime.strptime(text, "%Y-%m-%d %H:%M:%S") followed by
\* replace(tzinfo=UTC) and Time(...): ok = FALSE stands for ValueError
ParseDate(s) ==
    LET bad == [ok |-> FALSE, time |-> None]
        nY == DigitsFrom(s, 1)
    IN  IF ~(nY >= 4 /\ IsChar(s, 5, "-")) THEN bad ELSE
        LET y == NumAt(s, 1, 4)
            fm == Field(s, 6, 1, 12)
            p1 == 6 + fm.n
        IN  IF ~(fm.ok /\ IsChar(s, p1, "-")) THEN bad ELSE
        LET fd == Field(s, p1 + 1, 1, 31)
            p2 == p1 + 1 + fd.n
            sp == SpacesFrom(s, p2)
            p3 == p2 + sp
        IN  IF ~(fd.ok /\ sp >= 1) THEN bad ELSE
        LET fH == Field(s, p3, 0, 23)
            p4 == p3 + fH.n
        IN  IF ~(fH.ok /\ IsChar(s, p4, ":")) THEN bad ELSE
        LET fM == Field(s, p4 + 1, 0, 59)
            p5 == p4 + 1 + fM.n
        IN  IF ~(fM.ok /\ IsChar(s, p5, ":")) THEN bad ELSE
        LET fS == Field(s, p5 + 1, 0, 61)
            p6 == p5 + 1 + fS.n
        IN  IF ~(fS.ok /\ p6 = Len(s) + 1) THEN bad ELSE
            IF ~DatetimeValid(y, fm.val, fd.val, fH.val, fM.val, fS.val) THEN bad
            ELSE [ok |-> TRUE,
                  time |-> Instant(y, fm.val, fd.val,
                                   fH.val * Hour + fM.val * Minute
                                   + fS.val * Resolution)]

\* ------------------------------------------------------- visibility report
\* the tiers with the bounds taken inclusive
calculate_visibility_inclusive(altitude) ==
    IF altitude >= Deg(30) THEN "Excellent"
    ELSE IF altitude >= Deg(15) THEN "Good"
    ELSE IF altitude >= Deg(5) THEN "Fair"
    ELSE IF altitude >= 0 THEN "Poor"
    ELSE "Not visible"

calculate_visibility(altitude) ==
    IF altitude > Deg(30) THEN "Excellent"
    ELSE IF altitude > Deg(15) THEN "Good"
    ELSE IF altitude > Deg(5) THEN "Fair"
    ELSE IF altitude > 0 THEN "Poor"
    ELSE "Not visible"

compass_points == <<"N", "NNE", "NE", "ENE", "E", "ESE", "SE", "SSE",
                    "S", "SSW", "SW", "WSW", "W", "WNW", "NW", "NNW">>

\* round(a / b) for a >= 0, b > 0: to the nearest integer, ties to even
RoundHalfEven(a, b) ==
    LET q == a \div b
        r == a % b
    IN  IF 2 * r < b THEN q
        ELSE IF 2 * r > b THEN q + 1
        ELSE IF q % 2 = 0 THEN q ELSE q + 1

\* the index truncated instead of rounded
compass_idx_truncated(azimuth) == (azimuth \div (45 * Resolution)) % 16

\* 22.5 degrees is 45 * Resolution units
compass_idx(azimuth) == RoundHalfEven(azimuth, 45 * Resolution) % 16

get_compass_direction(azimuth) == compass_points[compass_idx(azimuth) + 1]

\* the estimate without its floor
HoursTillRise_unfloored(a) == (0 - a) * 120

\* max((0 - alt) / 15, 0.1) hours, in ticks: one unit of altitude is worth
\* 120 ticks at 15 degrees per hour, and 0.1 hour is 360 seconds
HoursTillRise(a) ==
    IF (0 - a) * 120 > 360 * Resolution THEN (0 - a) * 120 ELSE 360 * Resolution

\* ----------------------------------------------------------------- catalog
NEBULAE ==
    1 :> [name |-> <<"Orion", "Nebula", "(M42)">>, ra |-> "05h35m16.8s", dec |-> "-05d23m15s",
           constellation |-> "Orion"]
    @@ 2 :> [name |-> <<"Ring", "Nebula", "(M57)">>, ra |-> "18h53m35.097s", dec |-> "+33d01m44.88s",
           constellation |-> "Lyra"]
    @@ 3 :> [name |-> <<"Dumbbell", "Nebula", "(M27)">>, ra |-> "19h59m36.319s", dec |-> "+22d43m16.312s",
           constellation |-> "Vulpecula"]
    @@ 4 :> [name |-> <<"Crab", "Nebula", "(M1)">>, ra |-> "05h34m31.97s", dec |-> "+22d00m52.1s",
           constellation |-> "Taurus"]
    @@ 5 :> [name |-> <<"North", "America", "Nebula", "(NGC", "7000)">>, ra |-> "20h59m17.1s", dec |-> "+44d31m44s",
           constellation |-> "Cygnus"]
    @@ 6 :> [name |-> <<"Pelican", "Nebula", "(IC", "5070)">>, ra |-> "20h50m48.0s", dec |-> "+44d20m60.0s",
           constellation |-> "Cygnus"]
    @@ 7 :> [name |-> <<"Veil", "Nebula", "(NGC", "6960)">>, ra |-> "20h45m38.0s", dec |-> "+30d42m30s",
           constellation |-> "Cygnus"]
    @@ 8 :> [name |-> <<"Helix", "Nebula", "(NGC", "7293)">>, ra |-> "22h29m38.55s", dec |-> "-20d50m13.6s",
           constellation |-> "Aquarius"]
    @@ 9 :> [name |-> <<"Lagoon", "Nebula", "(M8)">>, ra |-> "18h03m37s", dec |-> "-24d23m12s",
           constellation |-> "Sagittarius"]
    @@ 10 :> [name |-> <<"Trifid", "Nebula", "(M20)">>, ra |-> "18h02m23s", dec |-> "-23d01m48s",
           constellation |-> "Sagittarius"]
    @@ 11 :> [name |-> <<"Owl", "Nebula", "(M97)">>, ra |-> "11h14m47.734s", dec |-> "+55d01m08.50s",
           constellation |-> "Ursa Major"]
    @@ 12 :> [name |-> <<"Heart", "Nebula", "(IC", "1805)">>, ra |-> "02h32m36s", dec |-> "+61d29m00s",
           constellation |-> "Cassiopeia"]
    @@ 13 :> [name |-> <<"Soul", "Nebula", "(IC", "1848)">>, ra |-> "02h51m36s", dec |-> "+60d26m00s",
           constellation |-> "Cassiopeia"]

\* the menu range starting at 0
InMenuRange_from0(c) == 0 <= c /\ c <= 13

\* 1 <= choice <= 13
InMenuRange(c) == 1 <= c /\ c <= 13

\* f"nebula_position_{selected['name'].split()[0]}.txt"
FileName(neb) == neb.name[1]

\* ------------------------------------------------------ messages printed
MsgEnter1or2 == "Please enter 1 or 2."
MsgDefaultEmpty == "Using default location: New York, USA"
MsgFound == "Found"
MsgNotFound == "Location not found. Please try again."
MsgServiceError == "Geocoding service error. Using default location: New York, USA"
MsgCityError == "Error. Using default location: New York, USA"
MsgCoordsInvalid == "Invalid input. Using default location."
MsgEnter123 == "Please enter 1, 2, or 3."
MsgCurrentTime == "Using current time"
MsgEvening == "Approximate evening time"
MsgSpecifiedTime == "Using specified time"
MsgInvalidFormat == "Invalid format. Please use YYYY-MM-DD HH:MM:SS format."
MsgDateError == "Error. Please try again."
MsgBetween == "Please enter a number between 1 and 13."
MsgNotNumber == "Invalid input. Please enter a number."
MsgBelowHorizon == "This nebula is currently below the horizon."
MsgRise == "It will rise at approximately"
MsgSaved == "Results saved"
MsgInterrupted == "Program interrupted. Goodbye!"
MsgUnexpected == "An unexpected error occurred"

\* -------------------------------------------------------------- exceptions
\* isinstance(exc, Exception); "return" stands for a normal return
IsException(exc) == exc \notin {"KeyboardInterrupt", "SystemExit", "return"}

\* a generic clause that takes every exception class
MainHandler_bare(exc) ==
    IF exc = "KeyboardInterrupt" THEN "interrupt"
    ELSE IF exc # "return" THEN "generic"
    ELSE "none"

\* the except clause of main() that takes exc, raised in the body of its try
MainHandler(exc) ==
    IF exc = "KeyboardInterrupt" THEN "interrupt"
    ELSE IF IsException(exc) THEN "generic"
    ELSE "none"

\* exc leaves the d innermost frames of main(): the exit code of the process
\* and what the handlers print on the way
RECURSIVE Unwind(_, _)
Unwind(exc, d) ==
    IF d = 0
    THEN [code |-> IF exc \in {"SystemExit", "return"} THEN 0 ELSE 1, out |-> {}]
    ELSE LET h == MainHandler(exc)
             rest == Unwind(IF h = "interrupt" THEN "SystemExit"
                            ELSE IF h = "generic" THEN "return" ELSE exc, d - 1)
         IN  [code |-> rest.code,
              out |-> rest.out \cup (IF h = "interrupt" THEN {MsgInterrupted}
                                     ELSE IF h = "generic" THEN {MsgUnexpected}
                                     ELSE {})]

\* the except clause of the date loop of get_user_time that takes exc
DateHandler(exc) ==
    IF exc = "ValueError" THEN "format"
    ELSE IF IsException(exc) THEN "generic"
    ELSE "none"

\* only the service error is handled
CityHandler_service_only(exc) ==
    IF exc = "GeocoderServiceError" THEN "service" ELSE "none"

\* the except clause of get_location_by_city that takes exc
CityHandler(exc) ==
    IF exc \in {"GeocoderTimedOut", "GeocoderServiceError"} THEN "service"
    ELSE IF IsException(exc) THEN "generic"
    ELSE "none"

\* a pass that takes the default when the geocoder finds nothing
get_location_by_city_fallback(text, result) ==
    LET location_str == Strip(text)
        default(m) == [done |-> TRUE, raised |-> None, lat |-> DEFAULT_LAT,
                       lon |-> DEFAULT_LON, src |-> "default", out |-> {m},
                       geo |-> IF location_str = <<>> THEN None ELSE result.kind]
    IN  IF location_str = <<>> THEN default(MsgDefaultEmpty)
        ELSE IF result.kind = "found"
        THEN [done |-> TRUE, raised |-> None, lat |-> result.lat,
              lon |-> result.lon, src |-> "geocoded", out |-> {MsgFound},
              geo |-> result.kind]
        ELSE IF result.kind = "none"
        THEN default(MsgNotFound)
        ELSE IF CityHandler(result.kind) = "service" THEN default(MsgServiceError)
        ELSE IF CityHandler(result.kind) = "generic" THEN default(MsgCityError)
        ELSE [done |-> FALSE, raised |-> result.kind, lat |-> None, lon |-> None,
              src |-> None, out |-> {}, geo |-> result.kind]

\* one pass of the loop of get_location_by_city on the text typed and the
\* geocoder's answer: done = TRUE when the function returns (lat, lon),
\* raised # None when an exception leaves the function
get_location_by_city(text, result) ==
    LET location_str == Strip(text)
        default(m) == [done |-> TRUE, raised |-> None, lat |-> DEFAULT_LAT,
                       lon |-> DEFAULT_LON, src |-> "default", out |-> {m},
                       geo |-> IF location_str = <<>> THEN None ELSE result.kind]
    IN  IF location_str = <<>> THEN default(MsgDefaultEmpty)
        ELSE IF result.kind = "found"
        THEN [done |-> TRUE, raised |-> None, lat |-> result.lat,
              lon |-> result.lon, src |-> "geocoded", out |-> {MsgFound},
              geo |-> result.kind]
        ELSE IF result.kind = "none"
        THEN [done |-> FALSE, raised |-> None, lat |-> None, lon |-> None,
              src |-> None, out |-> {MsgNotFound}, geo |-> result.kind]
        ELSE IF CityHandler(result.kind) = "service" THEN default(MsgServiceError)
        ELSE IF CityHandler(result.kind) = "generic" THEN default(MsgCityError)
        ELSE [done |-> FALSE, raised |-> result.kind, lat |-> None, lon |-> None,
              src |-> None, out |-> {}, geo |-> result.kind]

\* EarthLocation(lat, lon, height=0): the latitude is validated (ValueError
\* outside [-90, 90] degrees), the longitude is taken as given
EarthLocationOk(la, lo) == -90 * CoordUnit <= la /\ la <= 90 * CoordUnit

\* ------------------------------------------------------------------ inputs
\* answers to the menus of get_user_location and get_user_time
MenuTexts ==
    {<<"1">>,
    <<"2">>,
    <<"3">>,
    <<" ", "2", " ">>,
    <<"x">>,
    <<>>}

\* place names typed at "Location: "
CityTexts ==
    {<<"T", "o", "k", "y", "o">>,
    <<" ", " ">>,
    <<>>}

\* what geolocator.geocode(location_str, timeout=10) does
GeoResults ==
    {[kind |-> "found", lat |-> 356762, lon |-> 1396503],
     [kind |-> "found", lat |-> -338688, lon |-> 1512093],
     [kind |-> "none"], [kind |-> "GeocoderTimedOut"],
     [kind |-> "GeocoderServiceError"], [kind |-> "OtherError"]}

\* texts typed at "Latitude"
LatTexts ==
    {<<"5", "1", ".", "5">>,
    <<"-", "9", "0">>,
    <<" ", "9", "5">>,
    <<"-", "9", "1", ".", "5">>,
    <<"n", "o", "r", "t", "h">>,
    <<>>}

\* texts typed at "Longitude"
LonTexts ==
    {<<"-", "0", ".", "1", "2">>,
    <<"1", "8", "0">>,
    <<"4", "0", "0">>,
    <<"-", "2", "0", "0", ".", "5">>,
    <<"e", "a", "s", "t">>}

\* "2024-01-15 20:00:00"
DateOrion == <<"2", "0", "2", "4", "-", "0", "1", "-", "1", "5", " ", "2", "0", ":", "0", "0", ":", "0", "0">>
\* "2024-13-45 99:99:99"
DateBadExample == <<"2", "0", "2", "4", "-", "1", "3", "-", "4", "5", " ", "9", "9", ":", "9", "9", ":", "9", "9">>
\* "2024-02-29 23:30:00"
DateLeapDay == <<"2", "0", "2", "4", "-", "0", "2", "-", "2", "9", " ", "2", "3", ":", "3", "0", ":", "0", "0">>
\* "2023-02-29 12:00:00"
DateNoLeapDay == <<"2", "0", "2", "3", "-", "0", "2", "-", "2", "9", " ", "1", "2", ":", "0", "0", ":", "0", "0">>
\* "2024-1-5 3:4:5"
DateUnpadded == <<"2", "0", "2", "4", "-", "1", "-", "5", " ", "3", ":", "4", ":", "5">>
\* "2024-12-31 23:59:60"
DateLeapSecond == <<"2", "0", "2", "4", "-", "1", "2", "-", "3", "1", " ", "2", "3", ":", "5", "9", ":", "6", "0">>
\* "2024-04-31 00:00:00"
DateApril31 == <<"2", "0", "2", "4", "-", "0", "4", "-", "3", "1", " ", "0", "0", ":", "0", "0", ":", "0", "0">>
\* "tomorrow"
DateWords == <<"t", "o", "m", "o", "r", "r", "o", "w">>
\* "2024-01-15 20:00"
DateNoSeconds == <<"2", "0", "2", "4", "-", "0", "1", "-", "1", "5", " ", "2", "0", ":", "0", "0">>
\* "2024-01-15 20:00:00Z"
DateTrailing == <<"2", "0", "2", "4", "-", "0", "1", "-", "1", "5", " ", "2", "0", ":", "0", "0", ":", "0", "0", "Z">>
\* "1900-02-29 00:00:00"
DateCentury == <<"1", "9", "0", "0", "-", "0", "2", "-", "2", "9", " ", "0", "0", ":", "0", "0", ":", "0", "0">>
\* "0000-01-01 00:00:00"
DateYearZero == <<"0", "0", "0", "0", "-", "0", "1", "-", "0", "1", " ", "0", "0", ":", "0", "0", ":", "0", "0">>

\* texts typed at "Enter date and time"
DateTexts ==
    {DateOrion, DateBadExample, DateLeapDay, DateNoLeapDay, DateUnpadded, DateLeapSecond, DateApril31, DateWords, DateNoSeconds, DateTrailing, DateCentury, DateYearZero, <<>>}

\* values Time.now() returns
NowSamples ==
    {Instant(2024, 1, 15, 20 * Hour), Instant(2024, 12, 31, 18 * Hour + 30 * Minute)}

\* texts typed at "Enter the number of the nebula"
NebulaTexts ==
    {<<"1">>,
    <<" ", "7", " ">>,
    <<"1", "3">>,
    <<"+", "4">>,
    <<"1", "4">>,
    <<"0">>,
    <<"-", "1">>,
    <<"3", ".", "5">>,
    <<"o", "r", "i", "o", "n">>,
    <<>>}

\* answers to the yes/no questions
YesNoTexts ==
    {<<"y">>,
    <<" ", "Y", " ">>,
    <<"n">>,
    <<"y", "e", "s">>,
    <<>>}

\* horizontal positions the transform may return, in the ranges of
\* nebula_altaz.alt.degree and nebula_altaz.az.degree
AltSamples == {Deg(-15), 0 - 1, 0, Deg(10), Deg(40)}

AzSamples == {Deg(0), Deg(90), Deg(360) - 1}

AllAlt == Deg(-90)..Deg(90)

AllAz == 0..(Deg(360) - 1)

\* ------------------------------------------------------------ the session
locVars == <<pending_lat, lat, lon, loc_src, location, geo_result>>
timeVars == <<clock, date_str, time_src, obs_time>>
selVars == <<choice, selected>>
posVars == <<alt, az, transforms>>
repVars == <<compass_dir, visibility, hours_till_rise, rise_time>>

Init ==
    /\ pc = "loc_mode" /\ depth = 1
    /\ pending_lat = None /\ lat = None /\ lon = None /\ loc_src = None
    /\ location = None /\ geo_result = None
    /\ clock = None /\ date_str = <<>> /\ time_src = None /\ obs_time = None
    /\ choice = None /\ selected = None
    /\ alt = None /\ az = None /\ transforms = 0
    /\ compass_dir = None /\ visibility = None
    /\ hours_till_rise = None /\ rise_time = None
    /\ report_file = None /\ out = {} /\ interrupted = FALSE /\ exit_code = None

\* exc (or a normal return) leaves the innermost main() and every main()
\* that called it; the process ends
Finish(exc, msgs) ==
    /\ pc' = "exited"
    /\ UNCHANGED depth
    /\ exit_code' = Unwind(exc, depth).code
    /\ out' = msgs \cup Unwind(exc, depth).out

\* the session stays in main()
Stay(next, msgs) ==
    /\ pc' = next
    /\ out' = msgs
    /\ UNCHANGED <<depth, exit_code>>

\* main() from the return of get_user_location to the first prompt of
\* get_user_time
AfterLocation(la, lo, src, msgs) ==
    /\ lat' = la /\ lon' = lo /\ loc_src' = src
    /\ IF EarthLocationOk(la, lo)
       THEN /\ location' = [lat |-> la, lon |-> lo, height |-> 0]
            /\ Stay("time_mode", msgs)
       ELSE /\ location' = None
            /\ Finish("ValueError", msgs)

\* get_user_location: "Enter 1 or 2: "
ChooseLocationMode(text) ==
    /\ pc = "loc_mode"
    /\ LET c == Strip(text)
       IN  IF c = <<"1">> THEN Stay("city", {})
           ELSE IF c = <<"2">> THEN Stay("lat", {})
           ELSE Stay("loc_mode", {MsgEnter1or2})
    /\ UNCHANGED <<locVars, timeVars, selVars, posVars, repVars, report_file,
                   interrupted>>

\* get_location_by_city: "Location: " and the geocoder's answer
EnterCity(text, result) ==
    /\ pc = "city"
    /\ LET r == get_location_by_city(text, result)
       IN  /\ geo_result' = r.geo
           /\ IF r.done THEN AfterLocation(r.lat, r.lon, r.src, r.out)
              ELSE /\ UNCHANGED <<lat, lon, loc_src, location>>
                   /\ IF r.raised = None THEN Stay("city", r.out)
                      ELSE Finish(r.raised, r.out)
    /\ UNCHANGED <<pending_lat, timeVars, selVars, posVars, repVars,
                   report_file, interrupted>>

\* get_location_by_coordinates: "Latitude"
EnterLatitude(text) ==
    /\ pc = "lat"
    /\ LET p == ParseFloat(text)
       IN  IF p.ok
           THEN /\ pending_lat' = p.val
                /\ Stay("lon", {})
                /\ UNCHANGED <<lat, lon, loc_src, location>>
           ELSE /\ pending_lat' = None
                /\ AfterLocation(DEFAULT_LAT, DEFAULT_LON, "default",
                                 {MsgCoordsInvalid})
    /\ UNCHANGED <<geo_result, timeVars, selVars, posVars, repVars,
                   report_file, interrupted>>

\* get_location_by_coordinates: "Longitude"
EnterLongitude(text) ==
    /\ pc = "lon"
    /\ LET p == ParseFloat(text)
       IN  IF p.ok
           THEN AfterLocation(pending_lat, p.val, "coords", {})
           ELSE AfterLocation(DEFAULT_LAT, DEFAULT_LON, "default",
                              {MsgCoordsInvalid})
    /\ UNCHANGED <<pending_lat, geo_result, timeVars, selVars, posVars,
                   repVars, report_file, interrupted>>

\* get_user_time: "Your choice (1, 2, or 3): "; now is what Time.now() reads
ChooseTimeMode(text, now) ==
    /\ pc = "time_mode"
    /\ LET c == Strip(text)
       IN  IF c = <<"1">>
           THEN /\ clock' = now /\ obs_time' = now /\ time_src' = "now"
                /\ Stay("nebula", {MsgCurrentTime})
           ELSE IF c = <<"3">>
           THEN /\ clock' = now /\ obs_time' = AddTicks(now, 12 * Hour)
                /\ time_src' = "tonight"
                /\ Stay("nebula", {MsgEvening})
           ELSE IF c = <<"2">>
           THEN /\ Stay("date", {})
                /\ UNCHANGED <<clock, obs_time, time_src>>
           ELSE /\ Stay("time_mode", {MsgEnter123})
                /\ UNCHANGED <<clock, obs_time, time_src>>
    /\ UNCHANGED <<locVars, date_str, selVars, posVars, repVars, report_file,
                   interrupted>>

\* get_user_time: "Enter date and time (YYYY-MM-DD HH:MM:SS): "
EnterDate(text) ==
    /\ pc = "date"
    /\ date_str' = text
    /\ LET p == ParseDate(text)
       IN  IF p.ok
           THEN /\ obs_time' = p.time /\ time_src' = "parsed"
                /\ Stay("nebula", {MsgSpecifiedTime})
           ELSE /\ UNCHANGED <<obs_time, time_src>>
                /\ IF DateHandler("ValueError") = "format"
                   THEN Stay("date", {MsgInvalidFormat})
                   ELSE IF DateHandler("ValueError") = "generic"
                   THEN Stay("date", {MsgDateError})
                   ELSE Finish("ValueError", {})
    /\ UNCHANGED <<locVars, clock, selVars, posVars, repVars, report_file,
                   interrupted>>

\* main: "Enter the number of the nebula (1-13): ", then NEBULAE[choice]
EnterNebula(text) ==
    /\ pc = "nebula"
    /\ LET p == ParseInt(text)
       IN  IF ~p.ok
           THEN /\ Stay("nebula", {MsgNotNumber})
                /\ UNCHANGED <<choice, selected>>
           ELSE /\ choice' = p.val
                /\ IF ~InMenuRange(p.val)
                   THEN /\ Stay("nebula", {MsgBetween})
                        /\ UNCHANGED selected
                   ELSE IF p.val \in DOMAIN NEBULAE
                   THEN /\ selected' = NEBULAE[p.val]
                        /\ Stay("transform", {})
                   ELSE /\ UNCHANGED selected
                        /\ Finish("KeyError", {})
    /\ UNCHANGED <<locVars, timeVars, posVars, repVars, report_file,
                   interrupted>>

\* main: nebula_coord.transform_to(altaz_frame) and the extraction of the
\* altitude and azimuth, whatever the library computes within their ranges
Transform(a, z) ==
    /\ pc = "transform"
    /\ alt' = a /\ az' = z
    /\ transforms' = transforms + 1
    /\ Stay("report", {})
    /\ UNCHANGED <<locVars, timeVars, selVars, repVars, report_file,
                   interrupted>>

\* main: the report, from get_compass_direction to the save question
Report ==
    /\ pc = "report"
    /\ compass_dir' = get_compass_direction(az)
    /\ visibility' = calculate_visibility(alt)
    /\ IF alt > 0
       THEN /\ hours_till_rise' = None /\ rise_time' = None
            /\ Stay("save", {})
       ELSE /\ hours_till_rise' = HoursTillRise(alt)
            /\ IF HoursTillRise(alt) > 0
               THEN /\ rise_time' = AddTicks(obs_time, HoursTillRise(alt))
                    /\ Stay("save", {MsgBelowHorizon, MsgRise})
               ELSE /\ rise_time' = None
                    /\ Stay("save", {MsgBelowHorizon})
    /\ UNCHANGED <<locVars, timeVars, selVars, posVars, report_file,
                   interrupted>>

\* main: "Save these results to a file? (y/n): "
AnswerSave(text) ==
    /\ pc = "save"
    /\ IF Lower(Strip(text)) = <<"y">>
       THEN /\ report_file' = FileName(selected)
            /\ Stay("another", {MsgSaved})
       ELSE /\ UNCHANGED report_file
            /\ Stay("another", {})
    /\ UNCHANGED <<locVars, timeVars, selVars, posVars, repVars, interrupted>>

\* main: "Check another nebula? (y/n): "; 'y' calls main() again, anything
\* else returns from every main() on the stack
AnswerAnother(text) ==
    /\ pc = "another"
    /\ IF Lower(Strip(text)) = <<"y">>
       THEN /\ depth < MaxDepth
            /\ pc' = "loc_mode" /\ depth' = depth + 1 /\ out' = {}
            /\ pending_lat' = None /\ lat' = None /\ lon' = None
            /\ loc_src' = None /\ location' = None /\ geo_result' = None
            /\ clock' = None /\ date_str' = <<>> /\ time_src' = None
            /\ obs_time' = None /\ choice' = None /\ selected' = None
            /\ alt' = None /\ az' = None /\ transforms' = 0
            /\ compass_dir' = None /\ visibility' = None
            /\ hours_till_rise' = None /\ rise_time' = None
            /\ UNCHANGED exit_code
       ELSE /\ Finish("return", {})
            /\ UNCHANGED <<locVars, timeVars, selVars, posVars, repVars>>
    /\ UNCHANGED <<report_file, interrupted>>

\* Ctrl-C while the session runs: KeyboardInterrupt where the innermost
\* main() stands, first offered to the handlers of the loop it is in
Interrupt ==
    /\ pc # "exited"
    /\ interrupted' = TRUE
    /\ IF pc = "city" /\ CityHandler("KeyboardInterrupt") # "none"
       THEN AfterLocation(DEFAULT_LAT, DEFAULT_LON, "default",
                          {IF CityHandler("KeyboardInterrupt") = "service"
                           THEN MsgServiceError ELSE MsgCityError})
       ELSE /\ UNCHANGED <<lat, lon, loc_src, location>>
            /\ IF pc = "date" /\ DateHandler("KeyboardInterrupt") # "none"
               THEN Stay("date", {IF DateHandler("KeyboardInterrupt") = "format"
                                  THEN MsgInvalidFormat ELSE MsgDateError})
               ELSE Finish("KeyboardInterrupt", {})
    /\ UNCHANGED <<pending_lat, geo_result, timeVars, selVars, posVars, repVars,
                   report_file>>

Next ==
    \/ \E text \in MenuTexts : ChooseLocationMode(text)
    \/ \E text \in CityTexts, result \in GeoResults : EnterCity(text, result)
    \/ \E text \in LatTexts : EnterLatitude(text)
    \/ \E text \in LonTexts : EnterLongitude(text)
    \/ \E text \in MenuTexts, now \in NowSamples : ChooseTimeMode(text, now)
    \/ \E text \in DateTexts : EnterDate(text)
    \/ \E text \in NebulaTexts : EnterNebula(text)
    \/ \E a \in AltSamples, z \in AzSamples : Transform(a, z)
    \/ Report
    \/ \E text \in YesNoTexts : AnswerSave(text)
    \/ \E text \in YesNoTexts : AnswerAnother(text)
    \/ Interrupt

Spec == Init /\ [][Next]_vars

\* ------------------------------------------- the report on bounded inputs
\* a session that has just transformed the Orion Nebula for the default
\* observer: every altitude with sample azimuths, every azimuth with sample
\* altitudes
InitReport ==
    /\ pc = "report" /\ depth = 1
    /\ pending_lat = None /\ lat = DEFAULT_LAT /\ lon = DEFAULT_LON
    /\ loc_src = "default"
    /\ location = [lat |-> DEFAULT_LAT, lon |-> DEFAULT_LON, height |-> 0]
    /\ geo_result = None
    /\ clock \in NowSamples /\ date_str = <<>> /\ time_src = "now"
    /\ obs_time = clock
    /\ choice = 1 /\ selected = NEBULAE[1]
    /\ \/ alt \in AllAlt /\ az \in {Deg(0), Deg(180)}
       \/ alt \in {Deg(-15), Deg(40)} /\ az \in AllAz
    /\ transforms = 1
    /\ compass_dir = None /\ visibility = None
    /\ hours_till_rise = None /\ rise_time = None
    /\ report_file = None /\ out = {} /\ interrupted = FALSE /\ exit_code = None

NextReport == Report

SpecReport == InitReport /\ [][NextReport]_vars

\* ================================================================== claims
Tiers == {"Excellent", "Good", "Fair", "Poor", "Not visible"}

\* C1: the report's visibility is exactly one of the five tiers, with strict
\* thresholds: Excellent iff alt > 30, Good iff 15 < alt <= 30, Fair iff
\* 5 < alt <= 15, Poor iff 0 < alt <= 5, Not visible iff alt <= 0; an altitude
\* on a threshold falls in the lower tier.
C1_VisibilityTiers ==
    pc = "save" =>
        /\ visibility \in Tiers
        /\ (visibility = "Excellent") <=> (alt > Deg(30))
        /\ (visibility = "Good") <=> (Deg(15) < alt /\ alt <= Deg(30))
        /\ (visibility = "Fair") <=> (Deg(5) < alt /\ alt <= Deg(15))
        /\ (visibility = "Poor") <=> (0 < alt /\ alt <= Deg(5))
        /\ (visibility = "Not visible") <=> (alt <= 0)
        /\ (alt = Deg(30)) => (visibility = "Good")
        /\ (alt = Deg(15)) => (visibility = "Fair")
        /\ (alt = Deg(5)) => (visibility = "Poor")
        /\ (alt = 0) => (visibility = "Not visible")

C1_Witness == pc = "save" /\ alt = Deg(30) /\ visibility = "Good"

\* distance around the circle between two bearings
CircDist(a, b) ==
    LET d == IF a >= b THEN a - b ELSE b - a
    IN  IF d <= Deg(180) THEN d ELSE Deg(360) - d

\* C2: for an azimuth in [0, 360) the compass direction is the entry of the
\* 16-point list at index round(az / 22.5) mod 16: a valid index whose bearing
\* (a multiple of 22.5 degrees) is nearest to the azimuth, with the top of the
\* range wrapping to N; 0 -> N, 90 -> E, 180 -> S, 359.9 -> N.
C2_CompassNearest ==
    pc = "save" =>
        \E k \in 0..15 :
            /\ compass_dir = compass_points[k + 1]
            /\ \A j \in 0..15 :
                   CircDist(az, k * 45 * Resolution)
                       <= CircDist(az, j * 45 * Resolution)
            /\ \E q \in 0..16 :
                   /\ q % 16 = k
                   /\ 2 * az >= (2 * q - 1) * 45 * Resolution
                   /\ 2 * az <= (2 * q + 1) * 45 * Resolution
                   /\ (2 * az = (2 * q - 1) * 45 * Resolution) => (q % 2 = 0)
                   /\ (2 * az = (2 * q + 1) * 45 * Resolution) => (q % 2 = 0)
            /\ (az = Deg(0)) => (compass_dir = "N")
            /\ (az = Deg(90)) => (compass_dir = "E")
            /\ (az = Deg(180)) => (compass_dir = "S")
            /\ (10 * az >= 3599 * 2 * Resolution) => (compass_dir = "N")

C2_Witness ==
    pc = "save" /\ 10 * az >= 3599 * 2 * Resolution /\ compass_dir = "N"

\* days of the calendar up to the instant's date
DaysBefore(i) ==
    LET y == i.Y - 1
        mdays == [m \in 1..12 |->
                     IF m = 2 THEN (IF i.Y % 4 = 0 /\ (i.Y % 100 # 0 \/ i.Y % 400 = 0)
                                    THEN 29 ELSE 28)
                     ELSE IF m \in {4, 6, 9, 11} THEN 30 ELSE 31]
        RECURSIVE upto(_)
        upto(m) == IF m = 0 THEN 0 ELSE mdays[m] + upto(m - 1)
    IN  365 * y + (y \div 4) - (y \div 100) + (y \div 400) + upto(i.M - 1) + i.D

\* ticks from instant a to instant b
Elapsed(a, b) ==
    (DaysBefore(b) - DaysBefore(a)) * 24 * 3600 * Resolution + b.t - a.t

IsCalendarInstant(i) ==
    /\ i.Y >= 1 /\ i.M \in 1..12 /\ i.D >= 1
    /\ DaysBefore([i EXCEPT !.D = 1]) + (i.D - 1)
           < DaysBefore([Y |-> IF i.M = 12 THEN i.Y + 1 ELSE i.Y,
                         M |-> IF i.M = 12 THEN 1 ELSE i.M + 1, D |-> 1, t |-> 0])
    /\ i.t >= 0 /\ i.t < 24 * 3600 * Resolution

\* C3: the hours-until-rise estimate is made exactly when the altitude is
\* <= 0 and is max(-alt / 15, 0.1) hours: never below 0.1 hour, 1.0 hour at
\* -15 degrees, 0.1 hour at 0 degrees; the announced rise time is the
\* observation instant plus the estimate, and the transform is not run again.
C3_RiseEstimate ==
    pc = "save" =>
        /\ (alt <= 0) <=> (MsgRise \in out)
        /\ transforms = 1
        /\ (alt <= 0) =>
              /\ 10 * hours_till_rise >= 3600 * Resolution
              /\ IF 10 * (0 - alt) >= 15 * 2 * Resolution
                 THEN 15 * 2 * Resolution * hours_till_rise
                          = (0 - alt) * 3600 * Resolution
                 ELSE 10 * hours_till_rise = 3600 * Resolution
              /\ (alt = Deg(-15)) => (hours_till_rise = 3600 * Resolution)
              /\ (alt = 0) => (10 * hours_till_rise = 3600 * Resolution)
              /\ IsCalendarInstant(rise_time)
              /\ Elapsed(obs_time, rise_time) = hours_till_rise

C3_Witness ==
    pc = "save" /\ alt = 0 /\ 10 * hours_till_rise = 3600 * Resolution
    /\ MsgRise \in out

DefaultAnnouncements ==
    {MsgDefaultEmpty, MsgServiceError, MsgCityError, MsgCoordsInvalid}

\* C5: a geocoding timeout or service error does not leave
\* get_location_by_city: the default location is announced and returned, the
\* session goes on to the time selection with it, and the default is never
\* taken without an announcement.
C5_GeocodeFailureFallsBack ==
    [][/\ (pc = "city" /\ ~interrupted'
           /\ geo_result' \in {"GeocoderTimedOut", "GeocoderServiceError"})
          => /\ pc' = "time_mode"
             /\ exit_code' = None
             /\ MsgServiceError \in out'
             /\ lat' = DEFAULT_LAT /\ lon' = DEFAULT_LON
       /\ (loc_src # "default" /\ loc_src' = "default")
          => (out' \cap DefaultAnnouncements # {})]_vars

C5_Witness ==
    /\ pc = "time_mode" /\ geo_result = "GeocoderTimedOut"
    /\ MsgServiceError \in out /\ lat = DEFAULT_LAT /\ lon = DEFAULT_LON

\* date texts that name no calendar instant in the format YYYY-MM-DD HH:MM:SS
RejectedDates ==
    {DateBadExample, DateNoLeapDay, DateLeapSecond, DateApril31, DateWords,
     DateNoSeconds, DateTrailing, DateCentury, DateYearZero, <<>>}

\* the instants the well-formed date texts name
NamedInstant(text) ==
    CASE text = DateOrion -> [Y |-> 2024, M |-> 1, D |-> 15,
                              t |-> 20 * 3600 * Resolution]
      [] text = DateLeapDay -> [Y |-> 2024, M |-> 2, D |-> 29,
                                t |-> (23 * 3600 + 30 * 60) * Resolution]
      [] text = DateUnpadded -> [Y |-> 2024, M |-> 1, D |-> 5,
                                 t |-> (3 * 3600 + 4 * 60 + 5) * Resolution]
      [] OTHER -> [Y |-> 0, M |-> 0, D |-> 0, t |-> 0]

\* C6: a date text that names no calendar instant is rejected with a new
\* prompt and no crash, and the transform only ever runs with an instant that
\* is the parsed text read as UTC, the current time, or the current time plus
\* 12 hours.
C6_OnlyValidInstants ==
    /\ [][(pc = "date" /\ ~interrupted' /\ date_str' \in RejectedDates)
          => /\ pc' = "date"
             /\ exit_code' = None
             /\ obs_time' = None
             /\ MsgInvalidFormat \in out']_vars
    /\ [](transforms >= 1 =>
            /\ time_src \in {"now", "tonight", "parsed"}
            /\ IsCalendarInstant(obs_time)
            /\ (time_src = "now") => (obs_time = clock)
            /\ (time_src = "tonight")
                   => (Elapsed(clock, obs_time) = 12 * 3600 * Resolution)
            /\ (time_src = "parsed")
                   => (date_str \notin RejectedDates
                       /\ obs_time = NamedInstant(date_str)))

C6_Witness ==
    pc = "date" /\ date_str = DateBadExample /\ MsgInvalidFormat \in out

\* C7: the object prompt lets exactly the integers 1 to 13 through: any other
\* entry brings the prompt back and never ends the session, the loop ends
\* only with a value in 1..13, and the catalog has an entry for it.
C7_MenuChoiceInCatalog ==
    /\ [][(pc = "nebula" /\ ~interrupted')
          => /\ pc' \in {"nebula", "transform"}
             /\ exit_code' = None
             /\ (MsgBetween \in out') => (pc' = "nebula" /\ choice' \notin 1..13)
             /\ (pc' = "transform")
                    => (choice' \in 1..13 /\ selected' = NEBULAE[choice'])]_vars
    /\ [](/\ DOMAIN NEBULAE = 1..13
          /\ pc \in {"transform", "report", "save", "another"}
                 => (choice \in 1..13 /\ choice \in DOMAIN NEBULAE))

C7_Witness == pc = "transform" /\ choice = 13 /\ selected = NEBULAE[13]

\* C8: every observer location the transform has run with has its latitude
\* in [-90, 90] and its longitude in [-180, 180] degrees.
C8_ObserverInRange ==
    transforms >= 1 =>
        /\ -90 * CoordUnit <= lat /\ lat <= 90 * CoordUnit
        /\ -180 * CoordUnit <= lon /\ lon <= 180 * CoordUnit

\* C9: the process ends with exit code 0 on every normal or interrupted
\* termination: Ctrl-C in any session, first or nested, exits at once with
\* code 0 and is not taken by the generic handler of an enclosing session,
\* and any answer other than 'y' to "Check another nebula?" ends with code 0.
C9_ExitCodeZero ==
    /\ [](pc = "exited" => exit_code = 0)
    /\ [][/\ (~interrupted /\ interrupted')
             => /\ pc' = "exited" /\ exit_code' = 0
                /\ MsgInterrupted \in out'
                /\ MsgUnexpected \notin out'
          /\ (pc = "another" /\ pc' \notin {"another", "loc_mode"})
             => (pc' = "exited" /\ exit_code' = 0)]_vars

C9_Witness ==
    pc = "exited" /\ interrupted /\ depth = MaxDepth /\ exit_code = 0
    /\ MsgInterrupted \in out

\* C10 as stated: once the geocoder has found nothing, the session holds the
\* default location.
C10_NotFoundFallsBack ==
    geo_result = "none" => (loc_src = "default" /\ pc # "city")

\* C10 as amended: when the geocoder finds nothing, get_location_by_city
\* takes no location: it prints "Location not found. Please try again." and
\* asks for the location again; the default is taken, with an announcement,
\* only for an empty entry or when the geocoding call raises.
C10_NotFoundAsksAgain ==
    [][/\ (pc = "city" /\ ~interrupted' /\ geo_result' = "none")
          => /\ pc' = "city"
             /\ exit_code' = None
             /\ MsgNotFound \in out'
             /\ loc_src' = None /\ lat' = None /\ lon' = None
       /\ (pc = "city" /\ loc_src' = "default")
          => /\ geo_result' \in {None, "GeocoderTimedOut",
                                 "GeocoderServiceError", "OtherError"}
             /\ out' \cap DefaultAnnouncements # {}]_vars

C10_Witness ==
    pc = "city" /\ geo_result = "none" /\ MsgNotFound \in out /\ loc_src = None

====
